---- MODULE Spec2Model ----
(***************************************************************************)
(* tap-facebook-pages: the pagination loop of FacebookPagesStream          *)
(* (request_records), the per-stream parameter builders (get_url_params),  *)
(* the next-token rules (get_next_page_token), the response flatteners     *)
(* (parse_response) and the redaction of logged request URLs.              *)
(*                                                                         *)
(* Text is a sequence of atoms.  An atom is one character of a value       *)
(* ("A", "7", "|", "%"), a separator ("?", "&", "=") or a lexeme that the  *)
(* code never looks inside (a parameter name, the base URL, a path).       *)
(* Python's None and every falsy string are the empty sequence.            *)
(***************************************************************************)
EXTENDS Integers, Sequences, FiniteSets, TLC

\* ------------------------------------------------------------------ bounds
\* the clock value t.time() returns during the run
Now == 1700000000
\* rows one request_records call may yield before the server stops serving rows
MaxRows == 3

\* the elements of a `data` array of a response flattened on its own
MaxPosts == 2

\* the sub-attachments of an attachment, the tagged profiles of a post, the
\* keys of a mapping value
MaxNested == 2

\* ------------------------------------------------------- program constants
Day == 86400
TwoDays == 172800
Window == 8035200
Limit == 100

None == <<>>

\* ------------------------------------------------------------------- text
Digits == <<"0", "1", "2", "3", "4", "5", "6", "7", "8", "9">>

DigitSet == {Digits[i] : i \in 1..10}

Letters == {"A", "B", "C", "D"}

\* the characters [a-zA-Z0-9] of the redaction pattern
AlNum == DigitSet \cup Letters

DigitVal(c) == (CHOOSE i \in 1..10 : Digits[i] = c) - 1

RECURSIVE StrNat(_)
StrNat(n) == IF n < 10 THEN <<Digits[n + 1]>>
             ELSE StrNat(n \div 10) \o <<Digits[(n % 10) + 1]>>

\* str(n)
Str(n) == IF n < 0 THEN <<"-">> \o StrNat(-n) ELSE StrNat(n)

AllDigits(s) == Len(s) > 0 /\ \A i \in 1..Len(s) : s[i] \in DigitSet

\* int(s) returns (otherwise it raises ValueError)
IsInt(s) == \/ AllDigits(s)
            \/ Len(s) > 1 /\ s[1] = "-" /\ AllDigits(Tail(s))

RECURSIVE IntNat(_)
IntNat(s) == IF Len(s) = 0 THEN 0
             ELSE 10 * IntNat(SubSeq(s, 1, Len(s) - 1)) + DigitVal(s[Len(s)])

\* int(s)
ToInt(s) == IF s[1] = "-" THEN 0 - IntNat(Tail(s)) ELSE IntNat(s)

\* index of the first occurrence of atom a in s, 0 when there is none
RECURSIVE IndexFrom(_, _, _)
IndexFrom(s, a, i) == IF i > Len(s) THEN 0
                      ELSE IF s[i] = a THEN i
                      ELSE IndexFrom(s, a, i + 1)

Index(s, a) == IndexFrom(s, a, 1)

\* s.split(a)
RECURSIVE Split(_, _)
Split(s, a) == LET i == Index(s, a)
               IN IF i = 0 THEN <<s>>
                  ELSE <<SubSeq(s, 1, i - 1)>> \o Split(SubSeq(s, i + 1, Len(s)), a)

\* sub occurs in s as a contiguous run
Contains(s, sub) == \E i \in 0..(Len(s) - Len(sub)) :
                        SubSeq(s, i + 1, i + Len(sub)) = sub

\* urllib.parse.unquote: a percent escape becomes its character
RECURSIVE Unquote(_)
Unquote(s) == IF Len(s) = 0 THEN <<>>
              ELSE IF Len(s) >= 3 /\ SubSeq(s, 1, 3) = <<"%", "7", "C">>
                   THEN <<"|">> \o Unquote(SubSeq(s, 4, Len(s)))
              ELSE IF Len(s) >= 3 /\ SubSeq(s, 1, 3) = <<"%", "2", "5">>
                   THEN <<"%">> \o Unquote(SubSeq(s, 4, Len(s)))
              ELSE <<s[1]>> \o Unquote(Tail(s))

\* urllib.parse.quote as requests applies it to a parameter value
RECURSIVE Quote(_)
Quote(s) == IF Len(s) = 0 THEN <<>>
            ELSE (IF s[1] = "|" THEN <<"%", "7", "C">>
                  ELSE IF s[1] = "%" THEN <<"%", "2", "5">>
                  ELSE <<s[1]>>) \o Quote(Tail(s))

\* ------------------------------------------------------------ dictionaries
\* A dict is the sequence of its items in insertion order.  A value is
\* [int |-> n], [str |-> text] or [list |-> <<text, ...>>].
Keys(d) == {d[i].k : i \in 1..Len(d)}

Get(d, key) == d[CHOOSE i \in 1..Len(d) : d[i].k = key].v

\* d.update({key: val})
Update(d, key, val) ==
    IF key \in Keys(d)
    THEN [i \in 1..Len(d) |-> IF d[i].k = key THEN [k |-> key, v |-> val] ELSE d[i]]
    ELSE Append(d, [k |-> key, v |-> val])

\* urllib.parse.urlparse(url).query
Query(url) == LET i == Index(url, "?")
              IN IF i = 0 THEN <<>> ELSE SubSeq(url, i + 1, Len(url))

\* urllib.parse.parse_qs: name=value pieces split at "&"; a piece without "="
\* or with a blank value is dropped; repeated names collect their values
\* (a parameter name is one atom)
RECURSIVE ParsePieces(_, _)
ParsePieces(pieces, d) ==
    IF Len(pieces) = 0 THEN d
    ELSE LET p == Head(pieces)
             e == Index(p, "=")
             name == p[1]
             val == Unquote(SubSeq(p, e + 1, Len(p)))
         IN IF e # 2 \/ Len(val) = 0
            THEN ParsePieces(Tail(pieces), d)
            ELSE ParsePieces(Tail(pieces),
                     IF name \in Keys(d)
                     THEN Update(d, name, [list |-> Append(Get(d, name).list, val)])
                     ELSE Update(d, name, [list |-> <<val>>]))

parse_qs(query) == ParsePieces(Split(query, "&"), <<>>)

\* ---------------------------------------------------------------- streams
Streams == {"Page", "Posts", "PostTaggedProfile", "PostAttachments",
            "PageInsights", "PostInsights"}

\* the `path` attribute of each stream class
Path(stream) == CASE stream = "Page" -> <<>>
                  [] stream = "PageInsights" -> <<"/insights">>
                  [] stream = "PostInsights" -> <<"/published_posts">>
                  [] OTHER -> <<"/posts">>

\* the value of `fields` each stream asks for on a first request
Fields(stream) ==
    CASE stream = "PostTaggedProfile" -> <<"id,created_time,to">>
      [] stream = "PostAttachments" -> <<"id,created_time,attachments">>
      [] stream = "PostInsights" -> <<"id,created_time,insights.metric(", "<metrics>", ")">>
      [] OTHER -> <<"<columns>">>

\* ",".join(self.metrics)
Metrics == <<"<metrics>">>

\* The result of a call that may raise: [raised |-> FALSE, val |-> v] or
\* [raised |-> TRUE].
Ret(v) == [raised |-> FALSE, val |-> v]

Raise == [raised |-> TRUE]

\* FacebookPagesStream.get_url_params returning from the branch that logs the
\* missing rights, before limit is added: C9 fails on it
BaseGetUrlParamsEarlyReturn(pid, token, start, table) ==
    IF token # None
    THEN parse_qs(Query(token))
    ELSE LET p1 == IF start # <<>>
                   THEN Update(<<>>, "since", [int |-> start[1]])
                   ELSE <<>>
         IN IF pid \in DOMAIN table
            THEN Update(Update(p1, "access_token", [str |-> table[pid]]),
                        "limit", [int |-> Limit])
            ELSE p1

\* FacebookPagesStream.get_url_params.  start is <<>> (no starting timestamp)
\* or <<seconds>>; table is the access_tokens mapping.
BaseGetUrlParams(pid, token, start, table) ==
    IF token # None
    THEN parse_qs(Query(token))
    ELSE LET p1 == IF start # <<>>
                   THEN Update(<<>>, "since", [int |-> start[1]])
                   ELSE <<>>
             p2 == IF pid \in DOMAIN table
                   THEN Update(p1, "access_token", [str |-> table[pid]])
                   ELSE p1
         IN Update(p2, "limit", [int |-> Limit])

\* Page.get_url_params
PageGetUrlParams(pid, token, start, table) ==
    Update(BaseGetUrlParams(pid, token, start, table), "fields",
           [str |-> Fields("Page")])

\* the same get_url_params without `if next_page_token: return params`:
\* C4 fails on it
PostsGetUrlParamsNoReturn(stream, pid, token, start, table) ==
    Update(BaseGetUrlParams(pid, token, start, table), "fields",
           [str |-> Fields(stream)])

\* get_url_params of Posts, PostTaggedProfile, PostAttachments, PostInsights
PostsGetUrlParams(stream, pid, token, start, table) ==
    LET params == BaseGetUrlParams(pid, token, start, table)
    IN IF token # None THEN params
       ELSE Update(params, "fields", [str |-> Fields(stream)])

\* the first `until` with `<` for `<=`: C6 fails on it
FirstUntilStrict(since, time) ==
    LET until == since + Window
    IN IF until < time THEN until ELSE time - Day

\* PageInsights.get_url_params, first request: the `until` sent
FirstUntil(since, time) ==
    LET until == since + Window
    IN IF until <= time THEN until ELSE time - Day

\* the token's `until` sent as it is: C7 fails on it
ClampUntilNever(until, time) == until

\* PageInsights.get_url_params, request built from a token: the `until` sent
ClampUntil(until, time) ==
    IF ToInt(until) > time THEN Str(time - Day) ELSE until

\* PageInsights.get_url_params
PageInsightsGetUrlParams(pid, token, start, table, time) ==
    LET params == BaseGetUrlParams(pid, token, start, table)
    IN IF token = None
       THEN IF "since" \notin Keys(params) THEN Raise
            ELSE Ret(Update(Update(params, "until",
                                   [int |-> FirstUntil(Get(params, "since").int, time)]),
                            "metric", [str |-> Metrics]))
       ELSE IF "until" \notin Keys(params) THEN Raise
            ELSE LET l == Get(params, "until").list
                 IN IF ~IsInt(l[1]) THEN Raise
                    ELSE Ret(Update(Update(params, "until",
                                 [list |-> [l EXCEPT ![1] = ClampUntil(l[1], time)]]),
                             "metric", [str |-> Metrics]))

\* self.get_url_params of the stream
GetUrlParams(stream, pid, token, start, table, time) ==
    CASE stream = "Page" -> Ret(PageGetUrlParams(pid, token, start, table))
      [] stream = "PageInsights" -> PageInsightsGetUrlParams(pid, token, start, table, time)
      [] OTHER -> Ret(PostsGetUrlParams(stream, pid, token, start, table))

\* ------------------------------------------------------------- next token
\* A response body is a JSON object: a record with the keys it has.
\* FacebookPagesStream.get_next_page_token
BaseGetNextPageToken(body) ==
    IF "paging" \in DOMAIN body /\ "next" \in DOMAIN body.paging
    THEN body.paging.next
    ELSE None

\* the test on until alone: C16 fails on it
SuppressedUntilOnly(since, until, time) ==
    until >= time /\ until <= time + TwoDays

\* the test with `>` for `>=` on since: C8 fails on it
SuppressedStrict(since, until, time) ==
    since > time - TwoDays \/ (until >= time /\ until <= time + TwoDays)

\* PageInsights.get_next_page_token: the test that drops the `next` link
Suppressed(since, until, time) ==
    since >= time - TwoDays \/ (until >= time /\ until <= time + TwoDays)

\* first value of params[key] is there and int() accepts it
IntParam(params, key) == key \in Keys(params) /\ IsInt(Get(params, key).list[1])

\* PageInsights.get_next_page_token
PageInsightsGetNextPageToken(body, time) ==
    IF "paging" \in DOMAIN body /\ "next" \in DOMAIN body.paging
    THEN LET params == parse_qs(Query(body.paging.next))
         IN IF ~IntParam(params, "since") \/ ~IntParam(params, "until") THEN Raise
            ELSE IF Suppressed(ToInt(Get(params, "since").list[1]),
                               ToInt(Get(params, "until").list[1]), time)
                 THEN Ret(None)
                 ELSE Ret(body.paging.next)
    ELSE Ret(None)

\* self.get_next_page_token of the stream
GetNextPageToken(stream, body, time) ==
    IF stream = "PageInsights" THEN PageInsightsGetNextPageToken(body, time)
    ELSE Ret(BaseGetNextPageToken(body))

\* ------------------------------------------------------------ request URL
BaseUrl == "https://graph.facebook.com/v10.0/"

\* one parameter as requests encodes it: name=value, once per value of a list
RECURSIVE EncodeList(_, _)
EncodeList(key, l) ==
    IF Len(l) = 0 THEN <<>>
    ELSE <<<<key, "=">> \o Quote(Head(l))>> \o EncodeList(key, Tail(l))

EncodeItem(item) ==
    IF "int" \in DOMAIN item.v THEN <<<<item.k, "=">> \o Str(item.v.int)>>
    ELSE IF "str" \in DOMAIN item.v THEN <<<<item.k, "=">> \o Quote(item.v.str)>>
    ELSE EncodeList(item.k, item.v.list)

RECURSIVE EncodePieces(_)
EncodePieces(params) ==
    IF Len(params) = 0 THEN <<>>
    ELSE EncodeItem(Head(params)) \o EncodePieces(Tail(params))

\* "&".join(pieces)
RECURSIVE Join(_)
Join(pieces) == IF Len(pieces) = 0 THEN <<>>
                ELSE IF Len(pieces) = 1 THEN pieces[1]
                ELSE pieces[1] \o <<"&">> \o Join(Tail(pieces))

\* req.url: url_base with the partition's page_id, the stream's path and the
\* encoded parameters
RequestUrl(stream, pid, params) ==
    LET q == Join(EncodePieces(params))
    IN <<BaseUrl, pid>> \o Path(stream) \o (IF Len(q) = 0 THEN <<>> ELSE <<"?">> \o q)

\* length of the longest run of [a-zA-Z0-9] atoms of s that starts at i
RECURSIVE AlNumRun(_, _)
AlNumRun(s, i) == IF i <= Len(s) /\ s[i] \in AlNum THEN 1 + AlNumRun(s, i + 1) ELSE 0

Mask == <<"access_token", "=", "*", "*", "*", "*", "*", "&">>

\* the pattern "access_token=[a-zA-Z0-9]+&" matches s at i: the number of
\* atoms matched, 0 when it does not match
MatchAt(s, i) ==
    IF i + 1 <= Len(s) /\ s[i] = "access_token" /\ s[i + 1] = "="
    THEN LET n == AlNumRun(s, i + 2)
         IN IF n >= 1 /\ i + 2 + n <= Len(s) /\ s[i + 2 + n] = "&"
            THEN n + 3 ELSE 0
    ELSE 0

\* re.sub("access_token=[a-zA-Z0-9]+&", "access_token=*****&", s) from i on
RECURSIVE SubFrom(_, _)
SubFrom(s, i) ==
    IF i > Len(s) THEN <<>>
    ELSE LET m == MatchAt(s, i)
         IN IF m > 0 THEN Mask \o SubFrom(s, i + m)
            ELSE <<s[i]>> \o SubFrom(s, i + 1)

\* the text prepare_request logs for a request URL
Redact(url) == SubFrom(Unquote(url), 1)

\* -------------------------------------------------------------- flattening
\* A JSON object is a record with the keys it has; a JSON array is a sequence.
\* A parse is [rows |-> the rows yielded, raised |-> whether it then raised,
\* error |-> the key whose lookup raised KeyError].
Yield(rows) == [rows |-> rows, raised |-> FALSE, error |-> ""]

Fail(key) == [rows |-> <<>>, raised |-> TRUE, error |-> key]

\* a.update(b)
Merge(a, b) == [k \in DOMAIN a \cup DOMAIN b |-> IF k \in DOMAIN b THEN b[k] ELSE a[k]]

\* a.pop(key)
Pop(a, key) == [k \in DOMAIN a \ {key} |-> a[k]]

HasKeys(a, keys) == keys \subseteq DOMAIN a

\* the parses of the elements of a loop, run one after the other: the loop
\* stops at the first that raises
RECURSIVE Chain(_)
Chain(ps) ==
    IF Len(ps) = 0 THEN Yield(<<>>)
    ELSE IF Head(ps).raised THEN Head(ps)
    ELSE LET rest == Chain(Tail(ps))
         IN [rows |-> Head(ps).rows \o rest.rows, raised |-> rest.raised,
             error |-> rest.error]

Each(xs, F(_)) == Chain([i \in 1..Len(xs) |-> F(xs[i])])

\* RESTStream.parse_response, which Page inherits: the response is the row
PageParseResponse(body) == Yield(<<body>>)

\* Posts.parse_response
PostsParseResponse(body, page_id) ==
    IF "data" \notin DOMAIN body THEN Fail("data")
    ELSE LET Row(row) == Yield(<<Merge(row, [page_id |-> page_id])>>)
         IN Each(body.data, Row)

\* parent_info of a post
ParentInfo(row, page_id) ==
    [page_id |-> page_id, post_id |-> row.id, post_created_time |-> row.created_time]

\* row["to"] read without the `in` test: C17 fails on it
PostTaggedProfileParseResponseStrict(body, page_id) ==
    IF "data" \notin DOMAIN body THEN Fail("data")
    ELSE LET Row(row) ==
                 IF ~HasKeys(row, {"id", "created_time"}) THEN Fail("id")
                 ELSE IF "to" \notin DOMAIN row THEN Fail("to")
                 ELSE IF "data" \notin DOMAIN row.to THEN Fail("data")
                 ELSE LET Profile(a) == Yield(<<Merge(a, ParentInfo(row, page_id))>>)
                      IN Each(row.to.data, Profile)
         IN Each(body.data, Row)

\* PostTaggedProfile.parse_response
PostTaggedProfileParseResponse(body, page_id) ==
    IF "data" \notin DOMAIN body THEN Fail("data")
    ELSE LET Row(row) ==
                 IF ~HasKeys(row, {"id", "created_time"}) THEN Fail("id")
                 ELSE IF "to" \in DOMAIN row
                 THEN IF "data" \notin DOMAIN row.to THEN Fail("data")
                      ELSE LET Profile(a) == Yield(<<Merge(a, ParentInfo(row, page_id))>>)
                           IN Each(row.to.data, Profile)
                 ELSE Yield(<<>>)
         IN Each(body.data, Row)

\* the attachment yielded as it came, before its sub-attachments: C13 fails
\* on it
AttachmentRowsParentFirst(attachment, parent_info) ==
    IF "subattachments" \in DOMAIN attachment
    THEN IF "data" \notin DOMAIN attachment.subattachments THEN Fail("data")
         ELSE LET subs == attachment.subattachments.data
              IN Yield(<<Merge(attachment, parent_info)>>
                       \o [i \in 1..Len(subs) |-> Merge(subs[i], parent_info)])
    ELSE Yield(<<Merge(attachment, parent_info)>>)

\* PostAttachments.parse_response, one attachment of a post
AttachmentRows(attachment, parent_info) ==
    IF "subattachments" \in DOMAIN attachment
    THEN IF "data" \notin DOMAIN attachment.subattachments THEN Fail("data")
         ELSE LET subs == attachment.subattachments.data
              IN Yield([i \in 1..Len(subs) |-> Merge(subs[i], parent_info)]
                       \o <<Merge(Pop(attachment, "subattachments"), parent_info)>>)
    ELSE Yield(<<Merge(attachment, parent_info)>>)

\* PostAttachments.parse_response
PostAttachmentsParseResponse(body, page_id) ==
    IF "data" \notin DOMAIN body THEN Fail("data")
    ELSE LET Row(row) ==
                 IF ~HasKeys(row, {"id", "created_time"}) THEN Fail("id")
                 ELSE IF "attachments" \in DOMAIN row
                 THEN IF "data" \notin DOMAIN row.attachments THEN Fail("data")
                      ELSE LET Att(a) == AttachmentRows(a, ParentInfo(row, page_id))
                           IN Each(row.attachments.data, Att)
                 ELSE Yield(<<>>)
         IN Each(body.data, Row)

\* A JSON scalar is [scalar |-> n]; a JSON mapping is [map |-> its items in
\* order], an item being [k |-> key, v |-> value].
IsDict(value) == "map" \in DOMAIN value

\* PageInsights.parse_response, one entry of `values`
PageInsightsValueRows(values, base_item) ==
    IF "value" \notin DOMAIN values THEN Fail("value")
    ELSE IF IsDict(values.value)
    THEN LET items == values.value.map
         IN IF Len(items) > 0 /\ "end_time" \notin DOMAIN values THEN Fail("end_time")
            ELSE Yield([i \in 1..Len(items) |->
                     Merge([context |-> items[i].k, value |-> items[i].v,
                            end_time |-> values.end_time], base_item)])
    ELSE Yield(<<Merge(values, base_item)>>)

\* PageInsights.parse_response
PageInsightsParseResponse(body) ==
    IF "data" \notin DOMAIN body THEN Fail("data")
    ELSE LET Row(row) ==
                 IF ~HasKeys(row, {"name", "period", "title", "id"}) THEN Fail("name")
                 ELSE IF "values" \in DOMAIN row
                 THEN LET base_item == [name |-> row.name, period |-> row.period,
                                        title |-> row.title, id |-> row.id]
                          Val(values) == PageInsightsValueRows(values, base_item)
                      IN Each(row.values, Val)
                 ELSE Yield(<<>>)
         IN Each(body.data, Row)

\* a mapping value yielded like a scalar, unexploded: C14 fails on it
PostInsightsValueRowsUnexploded(values, base_item) ==
    IF "value" \notin DOMAIN values THEN Fail("value")
    ELSE Yield(<<Merge(values, base_item)>>)

\* PostInsights.parse_response, one entry of `values`
PostInsightsValueRows(values, base_item) ==
    IF "value" \notin DOMAIN values THEN Fail("value")
    ELSE IF IsDict(values.value)
    THEN LET items == values.value.map
         IN Yield([i \in 1..Len(items) |->
                Merge([context |-> items[i].k, value |-> items[i].v], base_item)])
    ELSE Yield(<<Merge(values, base_item)>>)

\* PostInsights.parse_response
PostInsightsParseResponse(body, page_id) ==
    IF "data" \notin DOMAIN body THEN Fail("data")
    ELSE LET Row(row) ==
                 IF ~HasKeys(row, {"insights"}) \/ "data" \notin DOMAIN row.insights
                 THEN Fail("insights")
                 ELSE LET Ins(insights) ==
                              IF ~HasKeys(row, {"id", "created_time"})
                                 \/ ~HasKeys(insights, {"name", "period", "title",
                                                        "description", "id"})
                              THEN Fail("id")
                              ELSE IF "values" \in DOMAIN insights
                              THEN LET base_item ==
                                           [post_id |-> row.id, page_id |-> page_id,
                                            post_created_time |-> row.created_time,
                                            name |-> insights.name,
                                            period |-> insights.period,
                                            title |-> insights.title,
                                            description |-> insights.description,
                                            id |-> insights.id]
                                       Val(values) == PostInsightsValueRows(values, base_item)
                                   IN Each(insights.values, Val)
                              ELSE Yield(<<>>)
                      IN Each(row.insights.data, Ins)
         IN Each(body.data, Row)

\* self.parse_response of the stream
ParseResponse(stream, body, page_id) ==
    CASE stream = "Page" -> PageParseResponse(body)
      [] stream = "Posts" -> PostsParseResponse(body, page_id)
      [] stream = "PostTaggedProfile" -> PostTaggedProfileParseResponse(body, page_id)
      [] stream = "PostAttachments" -> PostAttachmentsParseResponse(body, page_id)
      [] stream = "PageInsights" -> PageInsightsParseResponse(body)
      [] stream = "PostInsights" -> PostInsightsParseResponse(body, page_id)

\* ------------------------------------------------------------ environment
\* the partitions of a run, in the order the caller processes them
Partitions == <<"p1", "p2">>

\* access-token values: letters and digits only, and one with another character
TokenA == <<"A", "B", "C", "D", "1", "2", "3", "4">>

TokenB == <<"C", "|", "D">>

\* the access_tokens tables of a run: p2 has no entry in the first, p1 none
\* in the second
Tables == {"p1" :> TokenA, "p2" :> TokenB, ("p1" :> TokenA) @@ ("p2" :> TokenB)}

\* a start far enough in the past for whole windows to fit before the clock
Far == Now - 3 * Window

\* the starting timestamps (none, or seconds) a run of the stream may have
Starts(stream) ==
    IF stream = "PageInsights"
    THEN {<<>>, <<Far>>, <<Now - Window - 1>>, <<Now - Window>>, <<Now - Window + 1>>}
    ELSE {<<>>, <<Far>>}

\* a URL of the API as the server writes it: pairs are <<name, text>>
Url(stream, pid, pairs) ==
    <<BaseUrl, pid>> \o Path(stream) \o <<"?">>
    \o Join([i \in 1..Len(pairs) |-> <<pairs[i][1], "=">> \o pairs[i][2]])

\* the `next` links the server may put in a response
Links(stream, pid) ==
    LET U(pairs) == Url(stream, pid, pairs)
        a == <<"access_token", TokenA>>
        b == <<"access_token", Quote(TokenB)>>
        l == <<"limit", Str(Limit)>>
        W(since, until) == <<<<"since", Str(since)>>, <<"until", Str(until)>>>>
    IN IF stream = "PageInsights"
       THEN {U(<<a>> \o W(Far, Far + Window)),
             U(W(Now - TwoDays - 1, Now - 1) \o <<a>>),
             U(<<a>> \o W(Now - TwoDays, Now - Day - 5)),
             U(<<b>> \o W(Now - 90000, Now - 1)),
             U(<<a>> \o W(Far, Now)),
             U(<<a>> \o W(Far, Now + TwoDays)),
             U(<<b>> \o W(Far, Now + TwoDays + 1)),
             U(<<a, <<"since", Str(Far)>>>>)}
       ELSE {U(<<a, l, <<"after", <<"A">>>>>>),
             U(<<l, <<"after", <<"B">>>>, a>>),
             U(<<b, l, <<"after", <<"C">>>>, <<"after", <<"D">>>>>>)}

Post == [id |-> "post1", created_time |-> 1]

Metric == [name |-> "m", period |-> "day", title |-> "t", id |-> "i"]

PostMetric == Metric @@ [description |-> "d"]

Scalar == [value |-> [scalar |-> 7], end_time |-> 1]

Mapping == [value |-> [map |-> <<[k |-> "a", v |-> [scalar |-> 1]],
                                 [k |-> "b", v |-> [scalar |-> 2]]>>],
            end_time |-> 2]

NoValue == [end_time |-> 3]

\* the `data` arrays the server may answer with
Datas(stream) ==
    CASE stream = "Posts" -> {<<>>, <<Post>>}
      [] stream = "PostTaggedProfile" ->
            {<<>>, <<Post>>, <<Post, Post @@ [to |-> [data |-> <<[id |-> "u1"]>>]]>>}
      [] stream = "PostAttachments" ->
            {<<>>, <<Post>>,
             <<Post @@ [attachments |-> [data |-> <<[type |-> "photo"]>>]]>>,
             <<Post @@ [attachments |-> [data |->
                 <<[type |-> "album",
                    subattachments |-> [data |-> <<[type |-> "s1"], [type |-> "s2"]>>]]>>]]>>}
      [] stream = "PageInsights" ->
            {<<>>, <<Metric>>, <<Metric @@ [values |-> <<Scalar>>]>>,
             <<Metric @@ [values |-> <<Mapping>>]>>,
             <<Metric @@ [values |-> <<Scalar, NoValue>>]>>}
      [] stream = "PostInsights" ->
            {<<>>, <<Post @@ [insights |-> [data |-> <<PostMetric>>]]>>,
             <<Post @@ [insights |-> [data |-> <<PostMetric @@ [values |-> <<Scalar>>]>>]]>>,
             <<Post @@ [insights |-> [data |-> <<PostMetric @@ [values |-> <<Mapping>>]>>]]>>,
             <<Post @@ [insights |-> [data |-> <<PostMetric @@ [values |-> <<Scalar, NoValue>>]>>]]>>}

\* the JSON bodies of the successful responses the server may give
Bodies(stream, pid) ==
    LET plain == IF stream = "Page"
                 THEN {[id |-> pid]}
                 ELSE {[data |-> d] : d \in Datas(stream)} \cup {[error |-> "e"]}
    IN plain \cup {b @@ [paging |-> [next |-> u]] : b \in plain, u \in Links(stream, pid)}
             \cup {b @@ [paging |-> [previous |-> "u"]] : b \in {CHOOSE x \in plain : TRUE}}

\* ------------------------------------------------------------------ state
VARIABLES
    stream,           \* the stream class of the instance
    access_tokens,    \* FacebookPagesStream.access_tokens
    start,            \* what get_starting_timestamp returns: <<>> or <<seconds>>
    part,             \* index in Partitions of the partition being read
    page_id,          \* self.page_id
    pc,               \* position in request_records
    next_page_token,  \* the local next_page_token
    prepared,         \* the parameters of the prepared request
    rows,             \* the rows this call has yielded
    last,             \* how the try block of this pass of the loop ended
    error,            \* the key of the KeyError a failed parse raised
    link,             \* paging.next of the response of this pass
    stream_state,     \* self.stream_state, a stored dict
    partition_state,  \* what get_partition_state returns, a stored dict
    state_partition,  \* the argument of get_stream_or_partition_state
    state,            \* what get_stream_or_partition_state returned: <<dict>>
    resp,             \* the JSON body of a response given to parse_response
    parsed,           \* what iterating parse_response on it did: <<parse>>
    new_token         \* what get_next_page_token then returned: <<result>>

vars == <<stream, access_tokens, start, part, page_id, pc, next_page_token,
          prepared, rows, last, error, link, stream_state, partition_state,
          state_partition, state, resp, parsed, new_token>>

\* the variables of the pagination loop
loop == <<stream, access_tokens, start, part, page_id, pc, next_page_token,
          prepared, rows, last, error, link>>

\* the variables of a call of get_stream_or_partition_state
migration == <<stream_state, partition_state, state_partition, state>>

\* the variables of one run of the try block on a response
flattening == <<resp, parsed, new_token>>

\* no call of get_stream_or_partition_state is under way
NoMigration ==
    /\ stream_state = <<>>
    /\ partition_state = <<>>
    /\ state_partition = None
    /\ state = <<>>

\* no response is being flattened on its own
NoFlattening ==
    /\ resp = <<>>
    /\ parsed = <<>>
    /\ new_token = <<>>

env == <<stream, access_tokens, start>>

partition == Partitions[part]

\* request_records up to the loop, for the first partition of a run
Init ==
    /\ stream \in Streams
    /\ access_tokens \in Tables
    /\ start \in Starts(stream)
    /\ part = 1
    /\ page_id = "unset"
    /\ pc = "prepare"
    /\ next_page_token = None
    /\ prepared = <<>>
    /\ rows = <<>>
    /\ last = "none"
    /\ error = ""
    /\ link = None
    /\ NoMigration
    /\ NoFlattening

\* `finished = not next_page_token` at the end of the try block
Finished(token) == token = None

\* `finished = not next_page_token` in the except block
ExceptFinished(token) == token = None

\* `except requests.RequestException` for `except Exception`: C5 fails on it
CaughtRequestErrors(kind) == kind = "request_failed"

\* `except Exception`: what the try block raised is caught
Caught(kind) == kind \in {"request_failed", "parse_failed", "token_failed", "loop"}

\* the loop test after a pass: leave the loop or prepare the next request
Loop(finished) == IF finished THEN "done" ELSE "prepare"

\* where request_records is after a pass whose try block raised
Except(kind, token) ==
    IF Caught(kind) THEN Loop(ExceptFinished(token)) ELSE "raised"

\* prepare_request called inside the try block, its errors handled like a
\* failed page: C18 fails on it
PrepareInsideTry ==
    /\ pc = "prepare"
    /\ LET r == GetUrlParams(stream, partition, next_page_token, start,
                             access_tokens, Now)
       IN /\ page_id' = partition
          /\ IF r.raised
             THEN /\ pc' = Loop(ExceptFinished(next_page_token))
                  /\ last' = "request_failed"
                  /\ UNCHANGED prepared
             ELSE /\ pc' = "request"
                  /\ last' = "none"
                  /\ prepared' = r.val
    /\ error' = ""
    /\ link' = None
    /\ UNCHANGED <<env, part, next_page_token, rows, migration, flattening>>

\* prepare_request: get_url_params and the request built from its result.
\* It runs outside the try block: what it raises leaves request_records.
Prepare ==
    /\ pc = "prepare"
    /\ LET r == GetUrlParams(stream, partition, next_page_token, start,
                             access_tokens, Now)
       IN /\ page_id' = partition
          /\ IF r.raised
             THEN /\ pc' = "raised"
                  /\ UNCHANGED prepared
             ELSE /\ pc' = "request"
                  /\ prepared' = r.val
    /\ last' = "none"
    /\ error' = ""
    /\ link' = None
    /\ UNCHANGED <<env, part, next_page_token, rows, migration, flattening>>

\* _request_with_backoff raises (network error, HTTP error status such as
\* the rejection of a request without access_token)
RequestFails ==
    /\ pc = "request"
    /\ last' = "request_failed"
    /\ pc' = Except("request_failed", next_page_token)
    /\ UNCHANGED <<env, part, page_id, next_page_token, prepared, rows, error, link,
                   migration, flattening>>

\* the rest of the try block on a response with the given body
Respond(body) ==
    LET p == ParseResponse(stream, body, page_id)
        t == GetNextPageToken(stream, body, Now)
        previous_token == next_page_token
    IN /\ Len(rows) + Len(p.rows) <= MaxRows
       /\ rows' = rows \o p.rows
       /\ error' = p.error
       /\ link' = BaseGetNextPageToken(body)
       /\ IF p.raised
          THEN /\ last' = "parse_failed"
               /\ UNCHANGED next_page_token
               /\ pc' = Except("parse_failed", next_page_token)
          ELSE IF t.raised
          THEN /\ last' = "token_failed"
               /\ UNCHANGED next_page_token
               /\ pc' = Except("token_failed", next_page_token)
          ELSE /\ next_page_token' = t.val
               /\ IF t.val # None /\ t.val = previous_token
                  THEN /\ last' = "loop"
                       /\ pc' = Except("loop", t.val)
                  ELSE /\ last' = "ok"
                       /\ pc' = Loop(Finished(t.val))

\* the request succeeds and the try block runs on the response
RequestSucceeds ==
    /\ pc = "request"
    /\ \E body \in Bodies(stream, partition) : Respond(body)
    /\ UNCHANGED <<env, part, page_id, prepared, migration, flattening>>

\* the caller's loop over the partitions: request_records for the next one
NextPartition ==
    /\ pc = "done"
    /\ part < Len(Partitions)
    /\ part' = part + 1
    /\ pc' = "prepare"
    /\ next_page_token' = None
    /\ prepared' = <<>>
    /\ rows' = <<>>
    /\ last' = "none"
    /\ error' = ""
    /\ link' = None
    /\ UNCHANGED <<env, page_id, migration, flattening>>

\* req.url of the prepared request
url == RequestUrl(stream, partition, prepared)

\* the text prepare_request logged for the prepared request
logged == Redact(url)

Next == Prepare \/ RequestFails \/ RequestSucceeds \/ NextPartition

Spec == Init /\ [][Next]_vars

\* request_records leaves the position it is at: the prepared request is
\* sent, and the request returns or raises
Advance ==
    /\ pc \in {"prepare", "request"}
    /\ pc' \in {"prepare", "request", "done", "raised"}

\* the loop keeps running while the call has not ended
FairSpec == Spec /\ WF_pc(Advance)

TypeOK ==
    /\ stream \in Streams
    /\ part \in 1..Len(Partitions)
    /\ pc \in {"prepare", "request", "done", "raised"}
    /\ last \in {"none", "ok", "request_failed", "parse_failed", "token_failed", "loop"}
    /\ Len(rows) <= MaxRows

\* ---------------------------------------------------------- row delivery
\* post_process that returns the row as it is, for every stream: C12 fails on it
BasePostProcessUntagged(row, partition_dict) == row

\* FacebookPagesStream.post_process
BasePostProcess(row, partition_dict) ==
    IF "page_id" \in DOMAIN partition_dict
    THEN Merge(row, [page_id |-> partition_dict.page_id])
    ELSE row

\* Page.post_process
PagePostProcess(row) == row

\* self.post_process of the stream
PostProcess(s, row, partition_dict) ==
    IF s = "Page" THEN PagePostProcess(row) ELSE BasePostProcess(row, partition_dict)

\* the partition as the caller holds it
PartitionDict == [page_id |-> partition]

\* the rows delivered for the partition so far: the caller passes each row
\* request_records yields, with the partition, to post_process
delivered == [i \in 1..Len(rows) |-> PostProcess(stream, rows[i], PartitionDict)]

\* -------------------------------------------------------- state migration
\* A stored state is a JSON object: a record with the keys it has. A JSON
\* value is tagged with its Python type: [list |-> items], [str |-> text],
\* [num |-> n], [null |-> TRUE], [map |-> items].

\* isinstance(value, list)
IsList(value) == "list" \in DOMAIN value

\* the test and the assignment of get_stream_or_partition_state on the state
\* it selected
ResetProgressMarkers(s) ==
    IF "progress_markers" \in DOMAIN s /\ IsList(s.progress_markers)
    THEN [s EXCEPT !.progress_markers = [map |-> <<>>]]
    ELSE s

\* the values a stored progress_markers entry may have
Markers ==
    {[list |-> <<>>], [list |-> <<"m">>], [str |-> "m"], [num |-> 0],
     [null |-> TRUE], [map |-> <<>>], [map |-> <<[k |-> "Note", v |-> "n"]>>]}

\* the stored states: with or without progress_markers, with or without a
\* bookmark
States ==
    LET bookmarks == {<<>>} \cup {[replication_key_value |-> v] : v \in {1, 2}}
        markers == {<<>>} \cup {[progress_markers |-> m] : m \in Markers}
    IN {b @@ m : b \in bookmarks, m \in markers}

\* the pagination loop is not running
NoLoop ==
    /\ stream = "Page"
    /\ access_tokens = <<>>
    /\ start = <<>>
    /\ part = 1
    /\ page_id = "unset"
    /\ pc = "idle"
    /\ next_page_token = None
    /\ prepared = <<>>
    /\ rows = <<>>
    /\ last = "none"
    /\ error = ""
    /\ link = None

StateInit ==
    /\ NoLoop
    /\ NoFlattening
    /\ stream_state \in States
    /\ partition_state \in States
    /\ state_partition \in {None, <<"p1">>}
    /\ state = <<>>

\* get_stream_or_partition_state: the state it returns is the stored dict
\* itself, so the assignment changes the stored state too
GetStreamOrPartitionState ==
    /\ state = <<>>
    /\ IF state_partition # None
       THEN /\ partition_state' = ResetProgressMarkers(partition_state)
            /\ state' = <<partition_state'>>
            /\ UNCHANGED stream_state
       ELSE /\ stream_state' = ResetProgressMarkers(stream_state)
            /\ state' = <<stream_state'>>
            /\ UNCHANGED partition_state
    /\ UNCHANGED <<state_partition, loop, flattening>>

StateNext == GetStreamOrPartitionState

StateSpec == StateInit /\ [][StateNext]_vars

\* ------------------------------------------------ flattening of one page
\* the arrays of at most MaxPosts elements of a set
Arrays(S) == UNION {[1..n -> S] : n \in 0..MaxPosts}

\* a post of the page
PostOf(i) == [id |-> i, created_time |-> 10 + i]

\* a sub-attachment
SubAttachment(i) == [type |-> "photo", target |-> i]

\* an attachment with k sub-attachments
Album(k) ==
    [type |-> "album",
     subattachments |-> [data |-> [i \in 1..k |-> SubAttachment(i)]]]

\* an attachment without the `subattachments` key
Single == [type |-> "share"]

\* the attachments.data arrays of a post
AttachmentArrays ==
    {<<Single>>} \cup {<<Album(k)>> : k \in 0..MaxNested}
                 \cup {<<Album(k), Single>> : k \in 0..MaxNested}

\* a `values` entry whose value is a mapping with k keys
MappingOf(k) ==
    [value |-> [map |-> [i \in 1..k |-> [k |-> "k" \o ToString(i),
                                         v |-> [scalar |-> i]]]],
     end_time |-> 20 + k]

\* the `values` entries of a metric
Entries == {Scalar, NoValue} \cup {MappingOf(k) : k \in 0..MaxNested}

\* the `values` arrays of a metric
ValueArrays == {<<>>} \cup {<<e>> : e \in Entries} \cup {<<Scalar, e>> : e \in Entries}

\* a second metric
Metric2 == [name |-> "m2", period |-> "week", title |-> "t2", id |-> "i2"]

\* the metrics of a page-insights response
PageMetrics ==
    {Metric} \cup {Metric @@ [values |-> v] : v \in ValueArrays}
             \cup {Metric2 @@ [values |-> v] : v \in {<<Scalar>>, <<MappingOf(MaxNested)>>}}

\* the insights.data arrays of a post
PostMetricArrays ==
    LET m2 == Metric2 @@ [description |-> "d2", values |-> <<Scalar>>]
        first == {PostMetric}
                 \cup {PostMetric @@ [values |-> <<e>>] : e \in Entries}
                 \cup {PostMetric @@ [values |-> <<Scalar, MappingOf(1)>>]}
    IN {<<>>} \cup {<<m>> : m \in first} \cup {<<m, m2>> : m \in first}

\* the elements the `data` array of a response of the stream may have
Elements(s) ==
    CASE s = "Posts" -> {PostOf(i) : i \in 1..2}
      [] s = "PostTaggedProfile" ->
            {PostOf(i) : i \in 1..2}
            \cup {PostOf(i) @@ [to |-> [data |-> [j \in 1..k |-> [name |-> j]]]] :
                    i \in 1..2, k \in 0..MaxNested}
      [] s = "PostAttachments" ->
            {PostOf(i) : i \in 1..2}
            \cup {PostOf(i) @@ [attachments |-> [data |-> a]] :
                    i \in 1..2, a \in AttachmentArrays}
      [] s = "PageInsights" -> PageMetrics
      [] s = "PostInsights" ->
            {PostOf(1) @@ [insights |-> [data |-> a]] : a \in PostMetricArrays}
            \cup {PostOf(2) @@ [insights |-> [data |-> a]] :
                    a \in {<<>>, <<PostMetric @@ [values |-> <<Scalar>>]>>}}

\* a `next` link whose token is returned
NextLink(s, pid) ==
    IF s = "PageInsights"
    THEN Url(s, pid, <<<<"since", Str(Far)>>, <<"until", Str(Far + Window)>>>>)
    ELSE Url(s, pid, <<<<"after", <<"A">>>>>>)

\* the JSON bodies of the responses to flatten
Pages(s, pid) ==
    LET plain == IF s = "Page" THEN {[id |-> pid]}
                 ELSE {[data |-> d] : d \in Arrays(Elements(s))}
    IN plain \cup {b @@ [paging |-> [next |-> NextLink(s, pid)]] : b \in plain}

FlattenInit ==
    /\ stream \in Streams
    /\ page_id \in {Partitions[i] : i \in 1..Len(Partitions)}
    /\ resp \in Pages(stream, page_id)
    /\ parsed = <<>>
    /\ new_token = <<>>
    /\ NoMigration
    /\ access_tokens = <<>>
    /\ start = <<>>
    /\ part = 1
    /\ pc = "idle"
    /\ next_page_token = None
    /\ prepared = <<>>
    /\ rows = <<>>
    /\ last = "none"
    /\ error = ""
    /\ link = None

\* the try block of request_records on the response: parse_response is run
\* to its end, and get_next_page_token is called unless it raised
Flatten ==
    /\ parsed = <<>>
    /\ LET p == ParseResponse(stream, resp, page_id)
       IN /\ parsed' = <<p>>
          /\ new_token' = IF p.raised THEN <<>>
                          ELSE <<GetNextPageToken(stream, resp, Now)>>
    /\ UNCHANGED <<resp, loop, migration>>

FlattenNext == Flatten

FlattenSpec == FlattenInit /\ [][FlattenNext]_vars

\* ------------------------------------- page insights from a server that
\* ------------------------------------- always answers and moves forward
\* the since parameter of a request
SinceOf(params) ==
    LET v == Get(params, "since")
    IN IF "int" \in DOMAIN v THEN v.int ELSE ToInt(v.list[1])

\* the since values of the server's next links
ProgressSinces ==
    {Far, Far + Window, Far + 2 * Window, Now - TwoDays - 1, Now - TwoDays, Now - Day}

\* the until values the server may put beside a since
ProgressUntils(since) ==
    {since + Window, since + Day, Now - 1, Now, Now + TwoDays + 1}

\* the bodies the server may answer a request with: rows that parse, and a
\* next link whose since is greater than the since of the request
ProgressBodies(pid, since) ==
    LET datas == {<<>>, <<Metric @@ [values |-> <<Scalar>>]>>,
                  <<Metric @@ [values |-> <<Mapping>>]>>}
        Link(s, u) == Url("PageInsights", pid,
                          <<<<"access_token", TokenA>>, <<"since", Str(s)>>,
                            <<"until", Str(u)>>>>)
        links == UNION {{Link(s, u) : u \in ProgressUntils(s)} :
                           s \in {x \in ProgressSinces : x > since}}
    IN {[data |-> d, paging |-> [next |-> u]] : d \in datas, u \in links}

\* a page-insights run with a starting timestamp and a token for each page
ProgressInit ==
    /\ Init
    /\ stream = "PageInsights"
    /\ start # <<>>
    /\ \A i \in 1..Len(Partitions) : Partitions[i] \in DOMAIN access_tokens

\* the request succeeds with one of these bodies
ProgressResponds ==
    /\ pc = "request"
    /\ \E body \in ProgressBodies(partition, SinceOf(prepared)) : Respond(body)
    /\ UNCHANGED <<env, part, page_id, prepared, migration, flattening>>

ProgressNext == Prepare \/ ProgressResponds \/ NextPartition

\* the loop keeps running while the call has not ended
ProgressSpec == ProgressInit /\ [][ProgressNext]_vars /\ WF_pc(Advance)

\* ----------------------------------------------------------------- claims
Failures == {"request_failed", "parse_failed", "token_failed"}

InsightsStreams == {"PageInsights", "PostInsights"}

\* a request has been built from a pagination token and not yet answered
TokenRequest == pc = "request" /\ next_page_token # None

\* a first request of a call has been built and not yet answered
FirstRequest == pc = "request" /\ next_page_token = None

\* C1: when the token computed after a page equals the token that fetched
\* it, the rows of that page have been yielded and request_records is done:
\* it neither raises nor asks for that token again.
C1_LoopAborts ==
    last = "loop" => pc = "done"

\* C2: when the request, the parse or the next-token computation of any page
\* raises, request_records is done: no further request, nothing raised.
C2_PageFailureAborts ==
    last \in Failures => pc = "done"

\* C3: every call of request_records reaches a terminal state, whatever the
\* server does (fail, no next link, repeated token, fresh token).
C3_CallTerminates ==
    [](pc \in {"prepare", "request"} => <>(pc \in {"done", "raised"}))

\* the items of d whose key is not in ks
Without(d, ks) == SelectSeq(d, LAMBDA item : item.k \notin ks)

\* C4 as stated: for each of the six streams the parameters of a request
\* built from a token are exactly those parsed from the token's query string.
C4_TokenParamsVerbatim ==
    TokenRequest => prepared = parse_qs(Query(next_page_token))

\* C4 as amended: Posts, PostTaggedProfile, PostAttachments and PostInsights
\* send exactly the parameters parsed from the token; Page sends them with
\* `fields` set; PageInsights sends them with `metric` set and `until`
\* possibly rewritten.  No stream adds limit, access_token or since.
C4_TokenParams ==
    TokenRequest =>
        LET q == parse_qs(Query(next_page_token))
        IN CASE stream = "Page" ->
                    /\ Without(prepared, {"fields"}) = Without(q, {"fields"})
                    /\ Get(prepared, "fields") = [str |-> Fields("Page")]
             [] stream = "PageInsights" ->
                    /\ Without(prepared, {"metric", "until"}) = Without(q, {"metric", "until"})
                    /\ Get(prepared, "metric") = [str |-> Metrics]
                    /\ "until" \in Keys(prepared)
             [] OTHER -> prepared = q

C4_Witness ==
    /\ TokenRequest
    /\ stream = "PostInsights"
    /\ Len(Get(prepared, "after").list) = 2

\* C5 as stated: a `values` entry without `value` on a page of an insights
\* stream raises an error that leaves request_records.
C5_ContractErrorPropagates ==
    (stream \in InsightsStreams /\ last = "parse_failed" /\ error = "value")
        => pc = "raised"

\* C5 as amended: a `values` entry without `value` on a page of an insights
\* stream raises an error that the page-level handler catches: it does not
\* leave request_records, the rows before the entry have been yielded, and
\* the loop goes on as after any failed page.
C5_ContractErrorCaught ==
    (stream \in InsightsStreams /\ last = "parse_failed" /\ error = "value")
        => /\ pc \in {"done", "prepare"}
           /\ pc = "done" <=> next_page_token = None
           /\ Len(rows) >= 1

C5_Witness ==
    /\ stream = "PageInsights"
    /\ last = "parse_failed"
    /\ error = "value"
    /\ pc = "done"

\* the until parameter of a PageInsights request
UntilSent == LET v == Get(prepared, "until")
             IN IF "int" \in DOMAIN v THEN v.int ELSE ToInt(v.list[1])

Min(a, b) == IF a <= b THEN a ELSE b

\* C6: the first PageInsights request with since = T has until = T + 8035200
\* = min(T + 8035200, now) when that does not exceed now, until = now - 86400
\* when it does, and since = T.
C6_WindowClamp ==
    (FirstRequest /\ stream = "PageInsights") =>
        LET T == start[1]
        IN /\ Get(prepared, "since") = [int |-> T]
           /\ T + 8035200 <= Now => UntilSent = Min(T + 8035200, Now)
           /\ T + 8035200 <= Now => UntilSent = T + 8035200
           /\ T + 8035200 > Now => UntilSent = Now - 86400

C6_Witness ==
    /\ FirstRequest
    /\ stream = "PageInsights"
    /\ start[1] + 8035200 = Now
    /\ UntilSent = Now

\* C7 as stated: no PageInsights request, first or built from a token, has
\* until beyond now minus one day.
C7_UntilWithinDay ==
    (pc = "request" /\ stream = "PageInsights") => UntilSent <= Now - 86400

\* C7 as amended: no PageInsights request, first or built from a token, has
\* until beyond now; an until that would exceed now is sent as now - 86400.
C7_UntilNotBeyondNow ==
    (pc = "request" /\ stream = "PageInsights") =>
        /\ UntilSent <= Now
        /\ (next_page_token # None
            /\ ToInt(Get(parse_qs(Query(next_page_token)), "until").list[1]) > Now)
                => UntilSent = Now - 86400
        /\ (next_page_token = None /\ start[1] + 8035200 > Now)
                => UntilSent = Now - 86400

C7_Witness ==
    /\ TokenRequest
    /\ stream = "PageInsights"
    /\ ToInt(Get(parse_qs(Query(next_page_token)), "until").list[1]) > Now
    /\ UntilSent = Now - 86400

\* since and until of the `next` link of the response
LinkSince == ToInt(Get(parse_qs(Query(link)), "since").list[1])

LinkUntil == ToInt(Get(parse_qs(Query(link)), "until").list[1])

\* C8: PageInsights.get_next_page_token returns no token exactly when the
\* response has no next link, or the link's since >= now - 172800, or the
\* link's until is in [now, now + 172800]; otherwise it returns the link.
C8_StallSuppression ==
    (stream = "PageInsights" /\ last \in {"ok", "loop"}) =>
        IF \/ link = None
           \/ LinkSince >= Now - 172800
           \/ (Now <= LinkUntil /\ LinkUntil <= Now + 172800)
        THEN next_page_token = None
        ELSE next_page_token = link

C8_Witness ==
    /\ stream = "PageInsights"
    /\ last = "ok"
    /\ link # None
    /\ LinkSince = Now - 90000
    /\ next_page_token = None
    /\ pc = "done"

\* the first request of a partition without an access token has been built
\* or has failed to build
NoTokenFirstBuilt ==
    /\ partition \notin DOMAIN access_tokens
    /\ next_page_token = None
    /\ pc \in {"request", "raised"}

\* the parameters of a first request without access token
NoTokenParams ==
    /\ "access_token" \notin Keys(prepared)
    /\ "limit" \in Keys(prepared) /\ Get(prepared, "limit") = [int |-> 100]
    /\ "since" \in Keys(prepared) <=> start # <<>>

\* the first request of a partition without an access token was rejected
NoTokenRejected ==
    /\ partition \notin DOMAIN access_tokens
    /\ next_page_token = None
    /\ last = "request_failed"

\* C9 as stated: for a partition without access token, building the first
\* request does not fail and gives no access_token, limit = 100 and since
\* exactly when a starting timestamp exists; the rejection of the request
\* ends the pagination of the partition without aborting the run.
C9_MissingAuthorization ==
    /\ NoTokenFirstBuilt => (pc = "request" /\ NoTokenParams)
    /\ NoTokenRejected => pc = "done"

\* C9 as amended: the same, except that building the first PageInsights
\* request fails when no starting timestamp exists (no since to add the
\* window to): the error leaves request_records before any request is sent.
C9_MissingAuthorizationBuilt ==
    /\ NoTokenFirstBuilt =>
          IF stream = "PageInsights" /\ start = <<>>
          THEN pc = "raised"
          ELSE pc = "request" /\ NoTokenParams
    /\ NoTokenRejected => pc = "done"

C9_Witness ==
    /\ NoTokenRejected
    /\ pc = "done"
    /\ part = 2
    /\ start # <<>>

\* the values of access_token in the prepared request
Secrets ==
    IF "access_token" \notin Keys(prepared) THEN {}
    ELSE LET v == Get(prepared, "access_token")
         IN IF "str" \in DOMAIN v THEN {v.str} ELSE {v.list[i] : i \in 1..Len(v.list)}

\* C10: the text prepare_request logs for a request never contains the
\* access_token value, wherever the parameter stands in the query string and
\* whatever its characters.
C10_SecretRedacted ==
    pc = "request" => \A secret \in Secrets : ~Contains(logged, secret)

\* C11: after get_stream_or_partition_state returns, a progress_markers
\* entry of the state is a mapping: a stored list, string, number or null has
\* been reset to the empty mapping.
C11_ProgressMarkersIsMapping ==
    state # <<>> =>
        ("progress_markers" \in DOMAIN state[1]
            => "map" \in DOMAIN state[1].progress_markers)

\* every delivered row carries the page_id of the partition being read
Tagged == \A i \in 1..Len(delivered) :
    /\ "page_id" \in DOMAIN delivered[i]
    /\ delivered[i].page_id = partition

\* C12 as stated: for each of the six streams, every row delivered for a
\* partition carries the page_id of that partition.
C12_RowsTagged == Tagged

\* C12 as amended: for every stream but Page, every row delivered for a
\* partition carries the page_id of that partition, whichever partitions
\* were read before it.
C12_RowsTaggedButPage == stream # "Page" => Tagged

\* rows of a stream whose parse_response does not tag have been delivered
\* for the second partition
C12_Witness ==
    /\ stream = "PageInsights"
    /\ part = 2
    /\ Len(rows) > 1

\* the concatenation of a sequence of sequences
RECURSIVE Concat(_)
Concat(ss) == IF Len(ss) = 0 THEN <<>> ELSE Head(ss) \o Concat(Tail(ss))

\* the parent linkage of a post's rows
Linkage(post) ==
    [post_id |-> post.id, page_id |-> page_id, post_created_time |-> post.created_time]

\* what C13 says an attachment of a post yields
ExplodedAttachment(attachment, post) ==
    IF "subattachments" \in DOMAIN attachment
    THEN LET subs == attachment.subattachments.data
             parent == [key \in DOMAIN attachment \ {"subattachments"} |-> attachment[key]]
         IN [i \in 1..Len(subs) |-> Linkage(post) @@ subs[i]]
            \o <<Linkage(post) @@ parent>>
    ELSE <<Linkage(post) @@ attachment>>

\* what C13 says a post yields
ExplodedPost(post) ==
    IF "attachments" \in DOMAIN post
    THEN Concat([i \in 1..Len(post.attachments.data) |->
                    ExplodedAttachment(post.attachments.data[i], post)])
    ELSE <<>>

\* C13: PostAttachments.parse_response yields, for every attachment with k
\* sub-attachments, the k sub-attachment rows in their order and then the
\* parent row without `subattachments`, one row for an attachment without
\* sub-attachments, each row with the post_id, page_id and post_created_time
\* of its post.
C13_NestedExplosion ==
    (stream = "PostAttachments" /\ parsed # <<>>) =>
        /\ ~parsed[1].raised
        /\ parsed[1].rows = Concat([i \in 1..Len(resp.data) |-> ExplodedPost(resp.data[i])])
        /\ \A i \in 1..Len(parsed[1].rows) :
              "subattachments" \notin DOMAIN parsed[1].rows[i]

\* a page of two posts, one with an attachment of two or more
\* sub-attachments followed by an attachment without, has been flattened
C13_Witness ==
    /\ stream = "PostAttachments"
    /\ parsed # <<>>
    /\ Len(resp.data) = 2
    /\ \E i \in 1..2 :
          /\ "attachments" \in DOMAIN resp.data[i]
          /\ Len(resp.data[i].attachments.data) = 2
          /\ Len(resp.data[i].attachments.data[1].subattachments.data) >= 2
    /\ Len(parsed[1].rows) >= 4

\* the metadata of a metric: what it has beside its `values`
MetaOf(metric) == [key \in DOMAIN metric \ {"values"} |-> metric[key]]

\* the rows of one `values` entry: one per key of a mapping value, with the
\* entry's end_time if carried, or the entry itself for a scalar value
EntryRows(entry, meta, carried) ==
    IF IsDict(entry.value)
    THEN LET items == entry.value.map
             Item(i) == [context |-> items[i].k, value |-> items[i].v]
         IN [i \in 1..Len(items) |->
                IF carried THEN meta @@ Item(i) @@ [end_time |-> entry.end_time]
                ELSE meta @@ Item(i)]
    ELSE <<meta @@ entry>>

\* the rows of a metric
MetricRows(metric, linkage, carried) ==
    IF "values" \in DOMAIN metric
    THEN Concat([i \in 1..Len(metric.values) |->
                    EntryRows(metric.values[i], linkage @@ MetaOf(metric), carried)])
    ELSE <<>>

\* the rows of an insights page, page-level or post-level
InsightRows(carried) ==
    IF stream = "PageInsights"
    THEN Concat([i \in 1..Len(resp.data) |-> MetricRows(resp.data[i], <<>>, TRUE)])
    ELSE Concat([i \in 1..Len(resp.data) |->
            Concat([j \in 1..Len(resp.data[i].insights.data) |->
                MetricRows(resp.data[i].insights.data[j], Linkage(resp.data[i]), carried)])])

\* an insights page has been flattened without error
InsightsFlattened ==
    /\ stream \in InsightsStreams
    /\ parsed # <<>>
    /\ ~parsed[1].raised

\* C14 as stated: in PageInsights and in PostInsights alike, a mapping value
\* with k keys yields k rows with context, value, the entry's end_time and
\* the metric metadata, and a scalar value yields the entry as one row
\* without context; PostInsights only adds the post's linkage.
C14_SameExplosion == InsightsFlattened => parsed[1].rows = InsightRows(TRUE)

\* C14 as amended: the same, but the rows PostInsights yields for a mapping
\* value carry no end_time.
C14_Explosion ==
    InsightsFlattened => parsed[1].rows = InsightRows(stream = "PageInsights")

\* a post-insights page with a scalar and a mapping value has been flattened
C14_Witness ==
    /\ InsightsFlattened
    /\ stream = "PostInsights"
    /\ \E i, j \in 1..Len(parsed[1].rows) :
          /\ "context" \in DOMAIN parsed[1].rows[i]
          /\ "context" \notin DOMAIN parsed[1].rows[j]

\* C15: in a request_records run, failed pages and repeated tokens
\* included, no page is requested a second time: the request prepared after
\* a pass of the loop is not the request of that pass again, so the rows of
\* a page are yielded once.
C15_EachPageOnce ==
    [][(pc = "prepare" /\ last # "none" /\ pc' = "request")
          => prepared' # prepared]_vars

\* C16: with a fixed clock and a server whose every response succeeds with
\* a next link of greater since than the request's, every PageInsights call
\* ends, it ends by the suppression of a token, and no request built from a
\* token is sent with since >= now - 2 days.
C16_ProgressAndStop ==
    /\ (pc = "prepare") ~> (pc = "done")
    /\ [](pc = "done" => (last = "ok" /\ link # None /\ next_page_token = None))
    /\ [](TokenRequest => SinceOf(prepared) < Now - 172800)

\* a call that sent a request built from a token has ended on a suppressed
\* next link
C16_Witness ==
    /\ pc = "done"
    /\ part = 2
    /\ link # None
    /\ "list" \in DOMAIN Get(prepared, "since")
    /\ Len(rows) > 0

\* the nested key whose absence C17 is about
NestedKey ==
    CASE stream = "PostTaggedProfile" -> "to"
      [] stream = "PostAttachments" -> "attachments"
      [] stream \in InsightsStreams -> "values"

HasNested(element) == NestedKey \in DOMAIN element

\* a post of a post-insights page without its metrics that lack `values`
WithoutBareMetrics(post) ==
    [post EXCEPT !.insights = [data |-> SelectSeq(post.insights.data, HasNested)]]

\* the flattened page without the elements that lack the nested key
WithoutBare ==
    IF stream = "PostInsights"
    THEN [resp EXCEPT !.data = [i \in 1..Len(resp.data) |-> WithoutBareMetrics(resp.data[i])]]
    ELSE [resp EXCEPT !.data = SelectSeq(resp.data, HasNested)]

\* the elements of the flattened page that may lack the nested key
Nestable ==
    IF stream = "PostInsights"
    THEN Concat([i \in 1..Len(resp.data) |-> resp.data[i].insights.data])
    ELSE resp.data

\* C17: a post without `to`, a post without `attachments` and a metric
\* without `values` yield no row and raise nothing: the page flattens as it
\* would without them, and the next token is computed when nothing else
\* raised.
C17_MissingNestedKeys ==
    (stream \in {"PostTaggedProfile", "PostAttachments", "PageInsights", "PostInsights"}
        /\ parsed # <<>>) =>
        LET others == ParseResponse(stream, WithoutBare, page_id)
        IN /\ parsed[1].rows = others.rows
           /\ parsed[1].raised = others.raised
           /\ (\A i \in 1..Len(Nestable) : ~HasNested(Nestable[i]))
                 => (parsed[1].rows = <<>> /\ ~parsed[1].raised)
           /\ ~parsed[1].raised => new_token # <<>>

\* a page whose first post has no `to` and whose second has tagged profiles
\* has been flattened and its next token computed
C17_Witness ==
    /\ stream = "PostTaggedProfile"
    /\ parsed # <<>>
    /\ Len(resp.data) = 2
    /\ "to" \notin DOMAIN resp.data[1]
    /\ "to" \in DOMAIN resp.data[2]
    /\ Len(parsed[1].rows) >= 2
    /\ new_token # <<>>
    /\ new_token[1].val # None

\* building the next request raises
BuildRaises ==
    GetUrlParams(stream, partition, next_page_token, start, access_tokens, Now).raised

\* C18: an exception raised while the request of a page is built leaves
\* request_records: the page-level handler does not run, no request is sent
\* for the page, no row is yielded for it, and nothing happens after it.
C18_BuildFailurePropagates ==
    /\ [][(pc = "prepare" /\ BuildRaises)
            => (pc' = "raised" /\ last' = "none" /\ rows' = rows
                /\ prepared' = prepared)]_vars
    /\ [][pc = "raised" => UNCHANGED vars]_vars

\* the first PageInsights request of a partition without starting timestamp
\* could not be built
C18_Witness ==
    /\ pc = "raised"
    /\ stream = "PageInsights"
    /\ start = <<>>
    /\ next_page_token = None

====
